---- MODULE Spec2Model ----
(***************************************************************************)
(* LiveFetch scraper (src/scraper.py): the discovery loop (main_manager),  *)
(* the per-match worker threads (scrape_match_worker), the data writer     *)
(* (write_data_loop / write_to_json), the signal handler                   *)
(* (shutdown_handler) and the final join phase of __main__, as one state   *)
(* machine.                                                                *)
(*                                                                         *)
(* Threads.  The main thread runs main_manager and then the finally block  *)
(* of __main__; CPython runs a signal handler on the main thread, between  *)
(* two bytecodes of whatever the main thread is executing, so while hpc is *)
(* not "idle" the main thread's own code (mpc) is suspended.  The Thread   *)
(* objects of match id are the slots SlotOf(id, 1..MaxThreads); a slot     *)
(* whose thread has ended and that nothing references any more is reused   *)
(* for the next Thread object of that match.                               *)
(*                                                                         *)
(* Steps.  A step is one read or write of state that another thread can    *)
(* see (an Event, a dictionary under data_lock) together with the local    *)
(* computation and the external calls (driver, file system) around it.     *)
(* Every "with data_lock:" block makes no external call and is one step,   *)
(* enabled when the lock is free.  The one thing that can happen inside a  *)
(* block is a signal delivered to the main thread while the main thread    *)
(* itself holds the lock: SignalInLock covers it, and data_lock is "main"  *)
(* only then.                                                              *)
(*                                                                         *)
(* Functions.  get_live_data of src/api_server.py and the page parsers of  *)
(* src/scraper.py read their arguments only.  Each is called on its own:   *)
(* `call` holds the function and its arguments, `ret` what it returned.    *)
(***************************************************************************)
EXTENDS Integers, Sequences, FiniteSets, TLC

\* ---------------------------------------------------------------- bounds
NumIds == 3          \* match IDs that exist
ListedIds == 2       \* match IDs the list page shows in Spec
MaxFound == 2        \* rows PASS 1 extracts in one cycle in Spec
MaxThreads == 2      \* Thread objects for one match ID that exist at the same time
MaxFaults == 1       \* failures of external calls in one run
MaxFinishes == 1     \* matches that finish in one run
MaxRows == 3         \* rows of a table of the match page
FileFaults == 2      \* failures of external calls in one run of SpecFiles
WorkerFaults == 6    \* failures of external calls in a run of SpecWorker

\* ------------------------------------------------------ program constants
DriverErrorCeiling == 5
ScrapeErrorCeiling == 5

Ids == 1..NumIds
\* A Thread object (and the Event made with it) is named by the match ID it is
\* created for and a number that tells it from the other Thread objects for
\* that ID that still exist.
SlotOf(id, k) == (id - 1) * MaxThreads + k
Slots == 1..(NumIds * MaxThreads)
None == 0
NoThread == None
\* a local name of a thread before its first assignment
Unbound == ""

VARIABLES
    \* shared state (scraper.py 66-70)
    live_data_cache,        \* dict: match ID -> snapshot
    active_match_threads,   \* dict: match ID -> slot of the Thread object
    match_stop_events,      \* dict: match ID -> slot whose Event object it is
    data_lock,              \* "free" | "main"
    main_shutdown_event,    \* BOOLEAN
    \* one Thread object and its Event per slot
    wpc,                    \* position of the worker thread
    wmid,                   \* its match_id argument (None when the slot is free)
    stop,                   \* stop_event.is_set()
    thread_driver,          \* the worker holds a driver
    consecutive_scrape_errors,
    consecutive_driver_errors,
    match_finished,
    live_data,              \* result of the snapshot just scraped, or Unbound
    \* what each worker did since its last successful fetch (observation only)
    scrape_err_run,         \* transient fetch errors
    ceiling_breaks,         \* times it left the inner loop at line 408
    inplace_refreshes,      \* times it called refresh() at line 410
    \* main thread: main_manager and __main__'s finally block
    mpc,
    manager_driver,
    found_match_ids,
    matches_to_start,       \* the part of matches_to_start PASS 2 has not visited yet
    mt,                     \* t, the Thread started and not yet registered
    ids_to_stop,
    dead_threads,
    active_threads_list,
    list_outcome,           \* how PASS 1 of the current cycle ended (observation only)
    \* signal handler (runs on the main thread)
    hpc,
    \* data writer thread and the files it touches
    wrpc,
    all_live_data,
    temp_file,
    target_file,
    \* environment
    faults,                 \* failures the environment may still inject
    finishes,               \* matches the environment may still let finish
    page_down,              \* the match pages fail to load, at every attempt
    \* a function called on its own
    call,                   \* the function and its arguments
    ret                     \* what it returned

shared == <<live_data_cache, active_match_threads, match_stop_events, data_lock,
            main_shutdown_event>>
dicts == <<live_data_cache, active_match_threads, match_stop_events>>
wobs == <<scrape_err_run, ceiling_breaks, inplace_refreshes>>
wlocal == <<wmid, thread_driver, consecutive_scrape_errors,
            consecutive_driver_errors, match_finished, live_data, wobs>>
wvars == <<wpc, stop, wlocal>>
mlocal == <<manager_driver, found_match_ids, matches_to_start, mt, ids_to_stop,
            dead_threads, active_threads_list, list_outcome>>
mvars == <<mpc, mlocal>>
wrvars == <<wrpc, all_live_data, temp_file, target_file>>
env == <<faults, finishes, page_down>>
fnvars == <<call, ret>>
vars == <<shared, wvars, mvars, hpc, wrvars, env, fnvars>>

\* ---------------------------------------------------------------- helpers
Range(f) == {f[x] : x \in DOMAIN f}

MinOf(S) == CHOOSE x \in S : \A y \in S : x <= y

\* Python dicts, as functions on the set of their keys
EmptyDict == [x \in {} |-> None]
\* d[k] = v
PutAlone(d, k, v) == [x \in {k} |-> v]

Put(d, k, v) == [x \in DOMAIN d \cup {k} |-> IF x = k THEN v ELSE d[x]]
DelNothing(d, k) == d

\* if k in d: del d[k]
Del(d, k) == [x \in DOMAIN d \ {k} |-> d[x]]

\* a file that does not exist, and a file holding the text of a list: the text
\* is complete only once it has all been written and the file closed
NoFile == [exists |-> FALSE, data |-> {}, complete |-> FALSE]
FileOf(data, complete) == [exists |-> TRUE, data |-> data, complete |-> complete]

is_alive_never(t) == FALSE

\* threading.Thread.is_alive(): started and its target has not returned
is_alive(t) == wpc[t] # "off"

\* the worker of slot t has been started and has not completed its cleanup block
Running(t) == wpc[t] \notin {"off", "done"}

\* live_data of scrape_match_worker after lines 394-395 (result is "In Progress",
\* or the worker would have left the loop at line 389)
Snapshot(id, result) == [match_id |-> id, result |-> result]

\* A Thread object and its Event are garbage once the thread has ended and no
\* dictionary or local variable refers to them; the slot then stands for the
\* next new Thread and Event.
Referenced(t) ==
    \/ t \in Range(active_match_threads)
    \/ t \in Range(match_stop_events)
    \/ t \in active_threads_list
    \/ t = mt

FreeSlots(id) == {t \in {SlotOf(id, k) : k \in 1..MaxThreads} :
                     wpc[t] = "off" /\ ~Referenced(t)}

AnyOf(S) == CHOOSE x \in S : TRUE

\* no function is called on its own
NoCall == [fn |-> "none"]
NotReturned == [returned |-> FALSE, raised |-> FALSE]
Returned(value) == [returned |-> TRUE, raised |-> FALSE, value |-> value]
Raised(exception) == [returned |-> FALSE, raised |-> TRUE, exception |-> exception]

\* ------------------------------------------------------------------- Init
InitThreads(f, n, down, c) ==
    /\ live_data_cache = EmptyDict
    /\ active_match_threads = EmptyDict
    /\ match_stop_events = EmptyDict
    /\ data_lock = "free"
    /\ main_shutdown_event = FALSE
    /\ wpc = [t \in Slots |-> "off"]
    /\ wmid = [t \in Slots |-> None]
    /\ stop = [t \in Slots |-> FALSE]
    /\ thread_driver = [t \in Slots |-> FALSE]
    /\ consecutive_scrape_errors = [t \in Slots |-> 0]
    /\ consecutive_driver_errors = [t \in Slots |-> 0]
    /\ match_finished = [t \in Slots |-> FALSE]
    /\ live_data = [t \in Slots |-> Unbound]
    /\ scrape_err_run = [t \in Slots |-> 0]
    /\ ceiling_breaks = [t \in Slots |-> 0]
    /\ inplace_refreshes = [t \in Slots |-> 0]
    /\ mpc = "m_loop"
    /\ manager_driver = FALSE
    /\ found_match_ids = {}
    /\ matches_to_start = <<>>
    /\ mt = NoThread
    /\ ids_to_stop = {}
    /\ dead_threads = {}
    /\ active_threads_list = {}
    /\ list_outcome = "none"
    /\ hpc = "idle"
    /\ wrpc = "wr_loop"
    /\ all_live_data = {}
    /\ temp_file = NoFile
    /\ target_file = NoFile
    /\ faults = f
    /\ finishes = n
    /\ page_down = down
    /\ call = c
    /\ ret = NotReturned

InitEnv(f, n, down) == InitThreads(f, n, down, NoCall)

\* a site whose pages load, but for the failures of the budget
InitWith(f, n) == InitEnv(f, n, FALSE)

\* A run has failures of external calls or matches that finish.
Init == InitWith(MaxFaults, 0) \/ InitWith(0, MaxFinishes)

\* The environment: an external call fails only while the budget of failures
\* lasts, and a match page shows a result only while the budget of finishes lasts.
CanFail(n) == faults >= n
Fail(n) == faults' = faults - n /\ UNCHANGED <<finishes, page_down, fnvars>>
NoFail == UNCHANGED <<env, fnvars>>

\* ======================================================== scrape_match_worker
\* Everything but the workers' own variables stays as it is.
WorkerOnly == UNCHANGED <<shared, mvars, hpc, wrvars>>

QuitSkipped(driver) == driver

\* lines 445-451 of the finally block: quit the driver that is held, if any,
\* and forget it
Quit(driver) == FALSE

DriverErrorStopsAboveCeiling(n) == n > DriverErrorCeiling

\* line 367: after that many failures in a row the worker gives up
DriverErrorStops(n) == n >= DriverErrorCeiling

\* lines 358-373, with the finally block (443-454) on the paths that reach it:
\* the outer loop's condition and setup_driver()
WAcquire(t) ==
    /\ wpc[t] = "outer"
    /\ IF stop[t] \/ match_finished[t]
       THEN /\ wpc' = [wpc EXCEPT ![t] = "cleanup"]
            /\ UNCHANGED <<thread_driver, consecutive_driver_errors>>
            /\ NoFail
       ELSE \/ \* setup_driver() returns a driver (363)
               /\ ~thread_driver[t]
               /\ thread_driver' = [thread_driver EXCEPT ![t] = TRUE]
               /\ wpc' = [wpc EXCEPT ![t] = "load"]
               /\ UNCHANGED consecutive_driver_errors
               /\ NoFail
            \/ \* a driver is still held (361): straight to the inner loop
               /\ thread_driver[t]
               /\ wpc' = [wpc EXCEPT ![t] = "inner"]
               /\ UNCHANGED <<thread_driver, consecutive_driver_errors>>
               /\ NoFail
            \/ \* setup_driver() returns None (364-373): count it; at the ceiling
               \* break out of the loop, else wait 10 s and continue
               /\ ~thread_driver[t]
               /\ CanFail(1)
               /\ Fail(1)
               /\ consecutive_driver_errors' =
                      [consecutive_driver_errors EXCEPT ![t] = @ + 1]
               /\ wpc' = [wpc EXCEPT ![t] =
                            IF DriverErrorStops(consecutive_driver_errors'[t])
                            THEN "cleanup" ELSE "outer"]
               /\ UNCHANGED thread_driver
    /\ UNCHANGED <<wmid, stop, consecutive_scrape_errors, match_finished,
                   live_data, wobs>>
    /\ WorkerOnly

\* lines 375-380, with the except clauses and the finally block (435-454) on
\* the failure: thread_driver.get(match_url) and the wait for the root element
WLoad(t) ==
    /\ wpc[t] = "load"
    /\ \/ \* the page loads: reset the counter (380)
          /\ ~page_down
          /\ consecutive_driver_errors' =
                 [consecutive_driver_errors EXCEPT ![t] = 0]
          /\ wpc' = [wpc EXCEPT ![t] = "inner"]
          /\ UNCHANGED thread_driver
          /\ NoFail
       \/ \* get() or the wait raises: logged (435-441), finally quits the
          \* driver and waits 5 s; the counter is left as it is
          /\ \/ CanFail(1) /\ Fail(1)
             \/ page_down /\ NoFail
          /\ thread_driver' = [thread_driver EXCEPT ![t] = Quit(@)]
          /\ wpc' = [wpc EXCEPT ![t] = "outer"]
          /\ UNCHANGED consecutive_driver_errors
    /\ UNCHANGED <<wmid, stop, consecutive_scrape_errors, match_finished,
                   live_data, wobs>>
    /\ WorkerOnly

\* the counter after one more transient error (404-407)
ScrapeErrorStep(n) == IF n + 1 > ScrapeErrorCeiling THEN 0 ELSE n + 1
ScrapeErrorBreaksAtCeiling(n) == n + 1 >= ScrapeErrorCeiling

\* that error makes the worker leave the inner loop for a new driver (405-408)
ScrapeErrorBreaks(n) == n + 1 > ScrapeErrorCeiling

\* line 383, with the finally block when the inner loop ends: the inner loop's
\* condition; scrape_match_page_data is called if the stop event is not set
WFetch(t) ==
    /\ wpc[t] = "inner"
    /\ IF stop[t]
       THEN \* the inner loop ends; finally quits the driver
            /\ thread_driver' = [thread_driver EXCEPT ![t] = Quit(@)]
            /\ wpc' = [wpc EXCEPT ![t] = "outer"]
       ELSE /\ wpc' = [wpc EXCEPT ![t] = "fetch"]
            /\ UNCHANGED thread_driver
    /\ UNCHANGED <<wmid, stop, consecutive_scrape_errors,
                   consecutive_driver_errors, match_finished, live_data, wobs>>
    /\ WorkerOnly
    /\ NoFail

\* what div.match-result-text may show: nothing ("In Progress", 311) or a result
Results == {"In Progress", "Finished"}

IsTerminalNever(result) == FALSE

\* line 389: the match is over
IsTerminal(result) == result # "In Progress"

\* lines 386-392 and 402-422, with the finally block on the paths that leave the
\* inner loop: scrape_match_page_data returns or raises, and what the worker
\* does with its result or its exception, whatever the stop event is by then
\* (the publication of lines 394-400 is WPublish)
WScrape(t) ==
    /\ wpc[t] = "fetch"
    /\ \/ \* scrape_match_page_data returns a snapshot
          \E result \in Results :
             /\ result # "In Progress" => finishes > 0
             /\ IF IsTerminal(result)
                THEN \* 389-392: match_finished, break, finally
                     /\ finishes' = finishes - 1
                     /\ UNCHANGED <<faults, page_down, fnvars>>
                     /\ match_finished' = [match_finished EXCEPT ![t] = TRUE]
                     /\ thread_driver' = [thread_driver EXCEPT ![t] = Quit(@)]
                     /\ wpc' = [wpc EXCEPT ![t] = "outer"]
                     /\ UNCHANGED live_data
                ELSE \* publish next
                     /\ live_data' = [live_data EXCEPT ![t] = result]
                     /\ wpc' = [wpc EXCEPT ![t] = "publish"]
                     /\ UNCHANGED <<thread_driver, match_finished>>
                     /\ NoFail
             /\ UNCHANGED <<consecutive_scrape_errors, wobs>>
       \/ \* Timeout / NoSuchElement / StaleElementReference (402-413)
          /\ CanFail(1)
          /\ scrape_err_run' = [scrape_err_run EXCEPT ![t] = @ + 1]
          /\ consecutive_scrape_errors' =
                 [consecutive_scrape_errors EXCEPT ![t] = ScrapeErrorStep(@)]
          /\ IF ScrapeErrorBreaks(consecutive_scrape_errors[t])
             THEN \* 406-408: break; finally quits the driver
                  /\ ceiling_breaks' = [ceiling_breaks EXCEPT ![t] = @ + 1]
                  /\ thread_driver' = [thread_driver EXCEPT ![t] = Quit(@)]
                  /\ wpc' = [wpc EXCEPT ![t] = "outer"]
                  /\ Fail(1)
                  /\ UNCHANGED inplace_refreshes
             ELSE \* 409-413: refresh(); if that raises, break and finally
                  /\ inplace_refreshes' =
                         [inplace_refreshes EXCEPT ![t] = @ + 1]
                  /\ UNCHANGED ceiling_breaks
                  /\ \/ /\ wpc' = [wpc EXCEPT ![t] = "wait"]
                        /\ Fail(1)
                        /\ UNCHANGED thread_driver
                     \/ /\ CanFail(2)
                        /\ Fail(2)
                        /\ thread_driver' = [thread_driver EXCEPT ![t] = Quit(@)]
                        /\ wpc' = [wpc EXCEPT ![t] = "outer"]
          /\ UNCHANGED <<match_finished, live_data>>
       \/ \* WebDriverException or any other exception (415-422): break
          /\ CanFail(1)
          /\ Fail(1)
          /\ thread_driver' = [thread_driver EXCEPT ![t] = Quit(@)]
          /\ wpc' = [wpc EXCEPT ![t] = "outer"]
          /\ UNCHANGED <<consecutive_scrape_errors, match_finished, live_data,
                         wobs>>
    /\ UNCHANGED <<wmid, stop, consecutive_driver_errors>>
    /\ WorkerOnly

\* lines 394-400: put the snapshot in the cache under the lock, reset the counter
WPublish(t) ==
    /\ wpc[t] = "publish"
    /\ data_lock = "free"
    /\ live_data_cache' =
           Put(live_data_cache, wmid[t], Snapshot(wmid[t], live_data[t]))
    /\ live_data' = [live_data EXCEPT ![t] = Unbound]
    /\ consecutive_scrape_errors' = [consecutive_scrape_errors EXCEPT ![t] = 0]
    /\ scrape_err_run' = [scrape_err_run EXCEPT ![t] = 0]
    /\ ceiling_breaks' = [ceiling_breaks EXCEPT ![t] = 0]
    /\ inplace_refreshes' = [inplace_refreshes EXCEPT ![t] = 0]
    /\ wpc' = [wpc EXCEPT ![t] = "wait"]
    /\ UNCHANGED <<wmid, stop, thread_driver, consecutive_driver_errors,
                   match_finished>>
    /\ UNCHANGED <<active_match_threads, match_stop_events, data_lock,
                   main_shutdown_event, mvars, hpc, wrvars>>
    /\ NoFail

\* lines 425-433: stop_event.wait(SCRAPE_INTERVAL_SECONDS) returns (on the
\* timeout or on the event); if the event is not set, refresh the page, and if
\* that raises, break and finally
WWait(t) ==
    /\ wpc[t] = "wait"
    /\ IF stop[t]
       THEN /\ wpc' = [wpc EXCEPT ![t] = "inner"]
            /\ UNCHANGED thread_driver
            /\ NoFail
       ELSE \/ /\ wpc' = [wpc EXCEPT ![t] = "inner"]
               /\ UNCHANGED thread_driver
               /\ NoFail
            \/ /\ CanFail(1)
               /\ Fail(1)
               /\ thread_driver' = [thread_driver EXCEPT ![t] = Quit(@)]
               /\ wpc' = [wpc EXCEPT ![t] = "outer"]
    /\ UNCHANGED <<wmid, stop, consecutive_scrape_errors,
                   consecutive_driver_errors, match_finished, live_data, wobs>>
    /\ WorkerOnly

CleanupCacheKept(cache, id) == cache

\* lines 459-460: the worker's cache entry goes
CleanupCache(cache, id) == Del(cache, id)

\* lines 458-464: the cleanup block, under the lock.  A thread that nothing
\* refers to after it (the usual case: it has just removed its own handle) can
\* be observed by no one, so its return is part of the same step.
WCleanup(t) ==
    /\ wpc[t] = "cleanup"
    /\ data_lock = "free"
    /\ live_data_cache' = CleanupCache(live_data_cache, wmid[t])
    /\ active_match_threads' = Del(active_match_threads, wmid[t])
    /\ match_stop_events' = Del(match_stop_events, wmid[t])
    /\ IF \/ t \in Range(active_match_threads') \cup Range(match_stop_events')
          \/ t \in active_threads_list
          \/ t = mt
       THEN /\ wpc' = [wpc EXCEPT ![t] = "done"]
            /\ UNCHANGED <<stop, wlocal>>
       ELSE /\ wpc' = [wpc EXCEPT ![t] = "off"]
            /\ wmid' = [wmid EXCEPT ![t] = None]
            /\ stop' = [stop EXCEPT ![t] = FALSE]
            /\ consecutive_scrape_errors' =
                   [consecutive_scrape_errors EXCEPT ![t] = 0]
            /\ consecutive_driver_errors' =
                   [consecutive_driver_errors EXCEPT ![t] = 0]
            /\ match_finished' = [match_finished EXCEPT ![t] = FALSE]
            /\ live_data' = [live_data EXCEPT ![t] = Unbound]
            /\ scrape_err_run' = [scrape_err_run EXCEPT ![t] = 0]
            /\ ceiling_breaks' = [ceiling_breaks EXCEPT ![t] = 0]
            /\ inplace_refreshes' = [inplace_refreshes EXCEPT ![t] = 0]
            /\ UNCHANGED thread_driver
    /\ UNCHANGED <<data_lock, main_shutdown_event, mvars, hpc, wrvars>>
    /\ NoFail

\* the target of a thread that is still referred to returns: the thread is no
\* longer alive and its locals are gone
WEnd(t) ==
    /\ wpc[t] = "done"
    /\ wpc' = [wpc EXCEPT ![t] = "off"]
    /\ wmid' = [wmid EXCEPT ![t] = None]
    /\ stop' = [stop EXCEPT ![t] = IF Referenced(t) THEN @ ELSE FALSE]
    /\ consecutive_scrape_errors' = [consecutive_scrape_errors EXCEPT ![t] = 0]
    /\ consecutive_driver_errors' = [consecutive_driver_errors EXCEPT ![t] = 0]
    /\ match_finished' = [match_finished EXCEPT ![t] = FALSE]
    /\ live_data' = [live_data EXCEPT ![t] = Unbound]
    /\ scrape_err_run' = [scrape_err_run EXCEPT ![t] = 0]
    /\ ceiling_breaks' = [ceiling_breaks EXCEPT ![t] = 0]
    /\ inplace_refreshes' = [inplace_refreshes EXCEPT ![t] = 0]
    /\ UNCHANGED thread_driver
    /\ NoFail
    /\ WorkerOnly

Worker(t) ==
    \/ WAcquire(t) \/ WLoad(t) \/ WFetch(t) \/ WScrape(t) \/ WPublish(t)
    \/ WWait(t) \/ WCleanup(t) \/ WEnd(t)

\* ================================================================ main_manager
\* The main thread executes its own code only while no signal handler is running
\* on it.
MainRuns == hpc = "idle"

\* What a step of the main thread that touches none of them leaves alone.
MainOnly == UNCHANGED <<wvars, hpc, wrvars>>

\* The Event of an ended thread that nothing refers to any more is garbage.
Collected(threads, events, st) ==
    [t \in Slots |->
        IF /\ wpc[t] = "off"
           /\ t \notin Range(threads) \cup Range(events) \cup active_threads_list
           /\ t # mt
        THEN FALSE ELSE st[t]]

\* The lists PASS 1 can extract from a page that shows the matches of `ids`: any
\* sequence of at most n of them (a row that raises is skipped, and a page that
\* changes between two visits can show the same match at two indexes).
Listings(ids, n) == UNION {[1..k -> ids] : k \in 0..n}

\* lines 500-582, 611-619 and 665-673: the loop's condition; the manager's
\* driver; the list page; PASS 1
MDiscover(lists) ==
    /\ MainRuns
    /\ mpc = "m_loop"
    /\ IF main_shutdown_event
       THEN /\ mpc' = "m_exit"
            /\ UNCHANGED <<manager_driver, found_match_ids, matches_to_start,
                           list_outcome>>
            /\ NoFail
       ELSE \/ \* the rows are extracted, some perhaps skipped (536-579)
               \E l \in lists :
                  /\ manager_driver' = TRUE
                  /\ matches_to_start' = l
                  /\ found_match_ids' = Range(l)
                  /\ list_outcome' = "ok"
                  /\ mpc' = "m_pass2"
                  /\ NoFail
            \/ \* the table is not found (528 raises TimeoutException, caught at
               \* 611), or another exception is caught at 618: on to the cleanup
               /\ CanFail(1)
               /\ Fail(1)
               /\ manager_driver' = TRUE
               /\ matches_to_start' = <<>>
               /\ found_match_ids' = {}
               /\ list_outcome' = "failed"
               /\ mpc' = "m_stale"
            \/ \* setup_driver() returns None (505-508), get() raises (665-673) or
               \* PASS 1 raises a WebDriverException (613-617): wait or continue
               /\ CanFail(1)
               /\ Fail(1)
               /\ manager_driver' = FALSE
               /\ mpc' = "m_loop"
               /\ UNCHANGED <<found_match_ids, matches_to_start, list_outcome>>
    /\ UNCHANGED <<mt, ids_to_stop, dead_threads, active_threads_list>>
    /\ UNCHANGED shared
    /\ MainOnly

IsActiveUnchecked(id) == FALSE

\* match_id in active_match_threads (line 593)
IsActive(id) == id \in DOMAIN active_match_threads

\* lines 586-595: the head of PASS 2's loop and the is_active block
MPass2 ==
    /\ MainRuns
    /\ mpc = "m_pass2"
    /\ IF matches_to_start = <<>> \/ main_shutdown_event
       THEN /\ mpc' = "m_stale"
            /\ matches_to_start' = <<>>
       ELSE /\ data_lock = "free"
            /\ IF IsActive(Head(matches_to_start))
               THEN /\ matches_to_start' = Tail(matches_to_start)
                    /\ mpc' = "m_pass2"
               ELSE /\ mpc' = "m_start"
                    /\ UNCHANGED matches_to_start
    /\ UNCHANGED <<manager_driver, found_match_ids, mt, ids_to_stop,
                   dead_threads, active_threads_list, list_outcome>>
    /\ UNCHANGED shared
    /\ MainOnly
    /\ NoFail

\* lines 597-604: a new Event, a new Thread, t.start()
MStart ==
    /\ MainRuns
    /\ mpc = "m_start"
    /\ FreeSlots(Head(matches_to_start)) # {}
    /\ LET id == Head(matches_to_start)
           t == MinOf(FreeSlots(id)) IN
         /\ mt' = t
         /\ wpc' = [wpc EXCEPT ![t] = "outer"]
         /\ wmid' = [wmid EXCEPT ![t] = Head(matches_to_start)]
         /\ stop' = [stop EXCEPT ![t] = FALSE]
    /\ mpc' = "m_register"
    /\ UNCHANGED <<thread_driver, consecutive_scrape_errors,
                   consecutive_driver_errors, match_finished, live_data, wobs>>
    /\ UNCHANGED <<manager_driver, found_match_ids, matches_to_start,
                   ids_to_stop, dead_threads, active_threads_list, list_outcome>>
    /\ UNCHANGED <<shared, hpc, wrvars>>
    /\ NoFail

EventNotRegistered(events, id, event) == events

\* line 607: match_stop_events[match_id] = stop_event
RegisterEvent(events, id, event) == Put(events, id, event)

\* lines 605-609: register the thread and its event under the lock, wait 1 s
MRegister ==
    /\ MainRuns
    /\ mpc = "m_register"
    /\ data_lock = "free"
    /\ active_match_threads' = Put(active_match_threads, Head(matches_to_start), mt)
    /\ match_stop_events' =
           RegisterEvent(match_stop_events, Head(matches_to_start), mt)
    /\ mt' = NoThread
    /\ matches_to_start' = Tail(matches_to_start)
    /\ mpc' = "m_pass2"
    /\ UNCHANGED <<live_data_cache, data_lock, main_shutdown_event>>
    /\ UNCHANGED <<manager_driver, found_match_ids, ids_to_stop, dead_threads,
                   active_threads_list, list_outcome>>
    /\ MainOnly
    /\ NoFail

\* active_ids - found_match_ids (626-628)
StaleIds(found) == DOMAIN active_match_threads \ found

\* lines 625-629: active_ids under the lock, ids_to_stop
MStale ==
    /\ MainRuns
    /\ mpc = "m_stale"
    /\ data_lock = "free"
    /\ ids_to_stop' = StaleIds(found_match_ids)
    /\ mpc' = IF ids_to_stop' # {} THEN "m_stop" ELSE "m_scan"
    /\ UNCHANGED <<manager_driver, found_match_ids, matches_to_start, mt,
                   dead_threads, active_threads_list, list_outcome>>
    /\ UNCHANGED shared
    /\ MainOnly
    /\ NoFail

\* the Events that match_stop_events holds for the IDs of S
EventsOf(S) == {match_stop_events[x] : x \in S \cap DOMAIN match_stop_events}

\* lines 631-634: set the stop event of every stale ID, under the lock
MStop ==
    /\ MainRuns
    /\ mpc = "m_stop"
    /\ data_lock = "free"
    /\ stop' = [t \in Slots |-> stop[t] \/ t \in EventsOf(ids_to_stop)]
    /\ ids_to_stop' = {}
    /\ mpc' = "m_scan"
    /\ UNCHANGED <<manager_driver, found_match_ids, matches_to_start, mt,
                   dead_threads, active_threads_list, list_outcome>>
    /\ UNCHANGED <<wpc, wlocal, shared, hpc, wrvars>>
    /\ NoFail

\* lines 637-641: collect the IDs whose thread is not alive, under the lock
MScan ==
    /\ MainRuns
    /\ mpc = "m_scan"
    /\ data_lock = "free"
    /\ dead_threads' = {x \in DOMAIN active_match_threads :
                            ~is_alive(active_match_threads[x])}
    /\ mpc' = "m_sweep"
    /\ UNCHANGED <<manager_driver, found_match_ids, matches_to_start, mt,
                   ids_to_stop, active_threads_list, list_outcome>>
    /\ UNCHANGED shared
    /\ MainOnly
    /\ NoFail

\* lines 643-652: drop one dead ID from the three dictionaries, under the lock
MSweep ==
    /\ MainRuns
    /\ mpc = "m_sweep"
    /\ IF dead_threads = {}
       THEN /\ mpc' = "m_count"
            /\ UNCHANGED <<dicts, dead_threads, stop>>
       ELSE /\ data_lock = "free"
            /\ LET x == MinOf(dead_threads) IN
                 /\ active_match_threads' = Del(active_match_threads, x)
                 /\ live_data_cache' = Del(live_data_cache, x)
                 /\ match_stop_events' = Del(match_stop_events, x)
                 /\ dead_threads' = dead_threads \ {x}
            /\ stop' = Collected(active_match_threads', match_stop_events', stop)
            /\ UNCHANGED mpc
    /\ UNCHANGED <<data_lock, main_shutdown_event>>
    /\ UNCHANGED <<manager_driver, found_match_ids, matches_to_start, mt,
                   ids_to_stop, active_threads_list, list_outcome>>
    /\ UNCHANGED <<wpc, wlocal, hpc, wrvars>>
    /\ NoFail

\* lines 654-659: count under the lock, wait LIST_REFRESH_INTERVAL_SECONDS (or
\* until the shutdown event), back to the loop's condition; nothing reads
\* found_match_ids before line 513 empties it
MCount ==
    /\ MainRuns
    /\ mpc = "m_count"
    /\ data_lock = "free"
    /\ mpc' = "m_loop"
    /\ found_match_ids' = {}
    /\ list_outcome' = "none"
    /\ UNCHANGED <<manager_driver, matches_to_start, mt, ids_to_stop,
                   dead_threads, active_threads_list>>
    /\ UNCHANGED shared
    /\ MainOnly
    /\ NoFail

\* lines 676-682: quit the manager's driver; main_manager returns
MExit ==
    /\ MainRuns
    /\ mpc = "m_exit"
    /\ manager_driver' = FALSE
    /\ mpc' = "f_check"
    /\ UNCHANGED <<found_match_ids, matches_to_start, mt, ids_to_stop,
                   dead_threads, active_threads_list, list_outcome>>
    /\ UNCHANGED shared
    /\ MainOnly
    /\ NoFail

\* one cycle after the other
ManagerLoop(lists) ==
    \/ MDiscover(lists) \/ MPass2 \/ MStart \/ MRegister \/ MStale \/ MStop
    \/ MScan \/ MSweep \/ MCount

Manager(lists) == ManagerLoop(lists) \/ MExit

\* ============================================================ shutdown_handler
\* The next step of the main thread is a "with data_lock:" block.
MainAtLock ==
    \/ mpc \in {"m_register", "m_stale", "m_stop", "m_scan", "m_count", "f_list"}
    \/ mpc = "m_pass2" /\ matches_to_start # <<>>
    \/ mpc = "m_sweep" /\ dead_threads # {}

\* SIGINT or SIGTERM arrives: CPython calls the handler on the main thread at
\* the next bytecode boundary, whatever the main thread is doing.  (While the
\* interpreter exits the event is set and the handler would return at once.)
Signal ==
    /\ hpc = "idle"
    /\ mpc \notin {"sys_exit", "terminated"}
    /\ hpc' = "h_begin"
    /\ UNCHANGED <<shared, wvars, mvars, wrvars>>
    /\ NoFail

\* The same, at a bytecode boundary inside a "with data_lock:" block of the main
\* thread: the handler runs while the main thread holds the lock.  (With the
\* event already set the handler returns at once and the block goes on, which
\* is what Signal followed by the block gives.)
SignalInLock ==
    /\ hpc = "idle"
    /\ MainAtLock
    /\ ~main_shutdown_event
    /\ data_lock = "free"
    /\ data_lock' = "main"
    /\ hpc' = "h_begin"
    /\ UNCHANGED <<dicts, main_shutdown_event, wvars, mvars, wrvars>>
    /\ NoFail

ShutdownInProgressIgnored == FALSE

\* line 77: a shutdown is already in progress
ShutdownInProgress == main_shutdown_event

\* lines 77-82: return if shutdown is in progress, else set main_shutdown_event.
\* (One step: a second signal between the test and the set would only run the
\* same handler body once more.)
HBegin ==
    /\ hpc = "h_begin"
    /\ IF ShutdownInProgress
       THEN /\ hpc' = "idle"
            /\ UNCHANGED main_shutdown_event
       ELSE /\ main_shutdown_event' = TRUE
            /\ hpc' = "h_stop"
    /\ UNCHANGED <<dicts, data_lock, wvars, mvars, wrvars>>
    /\ NoFail

\* the Events the handler copies at line 87
StopEventsList == Range(match_stop_events)

\* lines 85-91: copy match_stop_events under the lock, set every event of the
\* copy, return.  threading.Lock is not reentrant: if the interrupted main thread
\* holds it, the acquire of line 85 never returns.
HStop ==
    /\ hpc = "h_stop"
    /\ data_lock = "free"
    /\ stop' = [t \in Slots |-> stop[t] \/ t \in StopEventsList]
    /\ hpc' = "idle"
    /\ UNCHANGED <<wpc, wlocal, shared, mvars, wrvars>>
    /\ NoFail

Handler == HBegin \/ HStop

\* ===================================================== __main__, finally block
\* lines 705-707: main_manager has returned; call the handler if the event is
\* not set (an ordinary call: the main thread goes on when it returns)
FCheck ==
    /\ MainRuns
    /\ mpc = "f_check"
    /\ mpc' = "f_list"
    /\ hpc' = IF main_shutdown_event THEN "idle" ELSE "h_begin"
    /\ UNCHANGED mlocal
    /\ UNCHANGED <<shared, wvars, wrvars>>
    /\ NoFail

\* lines 711-715: writer_thread.join(timeout=...) returns when the writer has
\* ended or the timeout has passed; copy the registered threads under the lock
FList ==
    /\ MainRuns
    /\ mpc = "f_list"
    /\ data_lock = "free"
    /\ active_threads_list' = Range(active_match_threads)
    /\ mpc' = "f_join"
    /\ UNCHANGED <<manager_driver, found_match_ids, matches_to_start, mt,
                   ids_to_stop, dead_threads, list_outcome>>
    /\ UNCHANGED shared
    /\ MainOnly
    /\ NoFail

\* lines 718-724: t.join(timeout=5.0) for each thread of the copy returns when t
\* has ended or after 5 s, whichever comes first; after the last, sys.exit(0)
FJoin ==
    /\ MainRuns
    /\ mpc = "f_join"
    /\ IF active_threads_list = {}
       THEN /\ mpc' = "sys_exit"
            /\ UNCHANGED <<active_threads_list, stop>>
       ELSE /\ active_threads_list' = active_threads_list \ {AnyOf(active_threads_list)}
            /\ stop' = [t \in Slots |->
                          IF /\ wpc[t] = "off"
                             /\ t \notin Range(active_match_threads)
                             /\ t \notin Range(match_stop_events)
                             /\ t \notin active_threads_list'
                          THEN FALSE ELSE stop[t]]
            /\ UNCHANGED mpc
    /\ UNCHANGED <<manager_driver, found_match_ids, matches_to_start, mt,
                   ids_to_stop, dead_threads, list_outcome>>
    /\ UNCHANGED <<wpc, wlocal, shared, hpc, wrvars>>
    /\ NoFail

\* The workers of a thread of the pool that the process still waits for.  They
\* are created without daemon=True (599-603), so at interpreter exit
\* threading._shutdown() joins each of them, without a timeout; the writer is a
\* daemon thread (line 694) and is not waited for.
NonDaemonAlive == {t \in Slots : is_alive(t)}

\* the interpreter exits: the process ends once no non-daemon thread is alive
ProcessExit ==
    /\ mpc = "sys_exit"
    /\ NonDaemonAlive = {}
    /\ mpc' = "terminated"
    /\ wrpc' = "wr_off"
    /\ UNCHANGED <<all_live_data, temp_file, target_file>>
    /\ UNCHANGED mlocal
    /\ UNCHANGED <<shared, wvars, hpc>>
    /\ NoFail

Final == FCheck \/ FList \/ FJoin \/ ProcessExit

\* ============================================= write_data_loop / write_to_json
WriterOnly == UNCHANGED <<shared, wvars, mvars, hpc>>

ValuesOfOne(cache) ==
    IF DOMAIN cache = {} THEN {} ELSE {cache[CHOOSE k \in DOMAIN cache : TRUE]}

\* list(live_data_cache.values())
Values(cache) == Range(cache)

WritesAnyway(data) == FALSE

\* line 480: len(all_live_data) == 0
NothingToWrite(data) == Cardinality(data) = 0

\* lines 472-479 (and the wait of line 487 before them): the loop's condition;
\* copy the cache under the lock; nothing to write if it is empty
WrCopy ==
    /\ wrpc = "wr_loop"
    /\ IF main_shutdown_event
       THEN /\ wrpc' = "wr_off"
            /\ UNCHANGED all_live_data
       ELSE /\ data_lock = "free"
            /\ all_live_data' = Values(live_data_cache)
            /\ wrpc' = IF NothingToWrite(all_live_data') THEN "wr_loop"
                                                        ELSE "wr_mkstemp"
    /\ UNCHANGED <<temp_file, target_file>>
    /\ WriterOnly
    /\ NoFail

\* json.dump(data, temp_f, indent=4) and json.load: the text of a list of
\* snapshots is an array of objects, one per snapshot, with the snapshot's keys;
\* the values of a snapshot that the model keeps are str and become JSON
\* strings, which json.load reads back as str.  The order of the list is not
\* modelled.
JsonString(x) == [json |-> "string", text |-> x]
DumpSnapshot(snap) == [k \in DOMAIN snap |-> JsonString(snap[k])]

DumpsEmpty(data) == {}

Dumps(data) == {DumpSnapshot(snap) : snap \in data}

LoadValue(j) == j.text
LoadObject(obj) == [k \in DOMAIN obj |-> LoadValue(obj[k])]
Loads(text) == {LoadObject(obj) : obj \in text}

\* lines 134-137: makedirs, mkstemp in the target's directory (an empty file)
WrMkstemp ==
    /\ wrpc = "wr_mkstemp"
    /\ \/ /\ temp_file' = FileOf(Dumps(all_live_data), FALSE)
          /\ wrpc' = "wr_dump"
          /\ NoFail
       \/ \* fails: logged (144); temp_path is None, nothing to remove
          /\ CanFail(1)
          /\ Fail(1)
          /\ wrpc' = "wr_loop"
          /\ UNCHANGED temp_file
    /\ all_live_data' = IF wrpc' = "wr_loop" THEN {} ELSE all_live_data
    /\ UNCHANGED target_file
    /\ WriterOnly

RemoveSkipped(file) == file

\* what os.remove(temp_path) leaves of the temporary file (line 149)
Remove(file) == NoFile

\* lines 139-140 (and 144-151 on an error): json.dump into the temporary file,
\* close it; on an error log it and remove the temporary file, which may fail
\* as well and is then only logged
WrDump ==
    /\ wrpc = "wr_dump"
    /\ \/ /\ temp_file' = FileOf(Dumps(all_live_data), TRUE)
          /\ wrpc' = "wr_replace"
          /\ UNCHANGED all_live_data
          /\ NoFail
       \/ /\ CanFail(1)
          /\ Fail(1)
          /\ temp_file' = Remove(temp_file)
          /\ all_live_data' = {}
          /\ wrpc' = "wr_loop"
       \/ /\ CanFail(2)
          /\ Fail(2)
          /\ UNCHANGED temp_file
          /\ all_live_data' = {}
          /\ wrpc' = "wr_loop"
    /\ UNCHANGED target_file
    /\ WriterOnly

ReplacedInPlace(temp, target) == FileOf(temp.data, FALSE)

\* what os.replace(temp_path, filename) leaves at filename
Replaced(temp, target) == temp

\* lines 142-143 (and 144-151 on an error): os.replace, atomic, after which
\* the temporary name is gone; on an error the temporary file is removed, which
\* may fail as well
WrReplace ==
    /\ wrpc = "wr_replace"
    /\ \/ /\ target_file' = Replaced(temp_file, target_file)
          /\ temp_file' = NoFile
          /\ NoFail
       \/ /\ CanFail(1)
          /\ Fail(1)
          /\ temp_file' = Remove(temp_file)
          /\ UNCHANGED target_file
       \/ /\ CanFail(2)
          /\ Fail(2)
          /\ UNCHANGED <<temp_file, target_file>>
    /\ all_live_data' = {}
    /\ wrpc' = "wr_loop"
    /\ WriterOnly

Writer == WrCopy \/ WrMkstemp \/ WrDump \/ WrReplace

\* ============================================ functions called on their own
\* The threads are not started.
Called(fn) ==
    /\ call.fn = fn
    /\ ~ret.returned /\ ~ret.raised
    /\ UNCHANGED <<shared, wvars, mvars, hpc, wrvars, env, call>>

\* ------------------------------------------- get_live_data (src/api_server.py)
\* the values of "error" (lines 41, 46, 50 and 54)
NoLiveMatchMsg == "No live match currently ongoing, For previous data, please refer visit this link \"https://livefetch.venoms.app/api/old-data\"."
FileNotFoundMsg == "Data file not found. The scraper may not have run yet."
DecodeErrorMsg == "Error decoding JSON. The data file might be corrupted or empty."
UnexpectedMsg == "An unexpected error occurred."

\* jsonify(...) and make_response(jsonify(...), status): the status and the
\* JSON text of the body, an array for a list and an object for a dict
JsonifyList(status, data) == [status |-> status, kind |-> "array", body |-> Dumps(data)]
JsonifyDict(status, d) == [status |-> status, kind |-> "object", body |-> DumpSnapshot(d)]

\* response.json of a client: the body, parsed
ResponseJson(response) ==
    IF response.kind = "array" THEN Loads(response.body)
                               ELSE LoadObject(response.body)

\* line 40: len(data) == 0
EmptyList(data) == Cardinality(data) = 0

AlwaysDecodeError(file, denied) == JsonifyDict(500, [error |-> DecodeErrorMsg])

\* lines 35-56.  The data file is absent (open raises FileNotFoundError), cannot
\* be opened or read (another exception), does not hold one complete JSON text
\* (json.load raises JSONDecodeError) or holds a list.
get_live_data(file, denied) ==
    IF ~file.exists
    THEN JsonifyDict(404, [error |-> FileNotFoundMsg])
    ELSE IF denied
    THEN JsonifyDict(500, [error |-> UnexpectedMsg, details |-> "str(e)"])
    ELSE IF ~file.complete
    THEN JsonifyDict(500, [error |-> DecodeErrorMsg])
    ELSE LET data == Loads(file.data)
         IN  IF EmptyList(data)
             THEN JsonifyDict(200, [error |-> NoLiveMatchMsg])
             ELSE JsonifyList(200, data)

GetLiveData ==
    /\ Called("get_live_data")
    /\ ret' = Returned(get_live_data(call.file, call.denied))

\* The data files of a bounded run: none, or the whole or a part of the text of
\* a list of snapshots of distinct matches, the empty list included.
DataFiles ==
    {NoFile} \cup {FileOf(Dumps({Snapshot(id, "In Progress") : id \in S}), c) :
                      S \in SUBSET Ids, c \in BOOLEAN}

GetLiveDataCalls ==
    {[fn |-> "get_live_data", file |-> f, denied |-> d] :
        f \in DataFiles, d \in BOOLEAN}

\* --------------------------------------- the texts of the page's elements
\* The text of an element: its characters without the whitespace at its two
\* ends, and whether there is such whitespace.
Plain(chars) == [pad |-> FALSE, core |-> chars]
Padded(chars) == [pad |-> TRUE, core |-> chars]

\* str.strip()
Strip(text) == [text EXCEPT !.pad = FALSE]

\* "not s" of a str
IsEmpty(text) == ~text.pad /\ text.core = ""

\* What find_element or wait.until gives: an element with its text, or a
\* NoSuchElementException or TimeoutException because there is none.
NoElement == [found |-> FALSE]
Element(text) == [found |-> TRUE, text |-> text]

\* ---------------------------------------------------- scrape_match_page_data
KeepEmpty(text) == text

\* lines 320-322: an empty result text means that the match is over
OrFinished(text) == IF IsEmpty(text) THEN Plain("Finished") ELSE text

\* lines 311-326: the text of div.match-result-text, "In Progress" without it
ResultText(lookup) ==
    IF lookup.found THEN OrFinished(Strip(lookup.text)) ELSE Plain("In Progress")

\* lines 300-342; odds, bookmarker and markets are what scrape_match_odds,
\* scrape_bookmarker and scrape_fancy_and_sessions return, which raise nothing
scrape_match_page_data(lookup, is_live_match, odds, bookmarker, markets) ==
    IF is_live_match
    THEN [last_updated |-> "time.time()",
          result |-> ResultText(lookup),
          odds |-> odds,
          bookmarker |-> bookmarker,
          fancy |-> markets[1],
          sessions |-> markets[2]]
    ELSE [last_updated |-> "time.time()",
          result |-> ResultText(lookup),
          winner |-> odds,
          bookmarker |-> bookmarker]

\* The wait for the result element can also raise another WebDriverException
\* (the browser is gone), which lines 325-326 do not catch.
ScrapeMatchPageData ==
    /\ Called("scrape_match_page_data")
    /\ ret' = IF call.crashed
              THEN Raised("WebDriverException")
              ELSE Returned(scrape_match_page_data(call.lookup, call.is_live_match,
                                call.odds, call.bookmarker, call.markets))

\* The texts an element may show in a bounded run.
ResultTexts ==
    {[pad |-> p, core |-> c] :
        p \in BOOLEAN, c \in {"", "In Progress", "Team A won"}}

Lookups == {NoElement} \cup {Element(text) : text \in ResultTexts}

\* what the three scraping functions may return
OddsLists == {<<>>, <<[team_name |-> "Team A", back |-> <<>>, lay |-> <<>>]>>}
MarketLists == {<<>>, <<[name |-> "market"]>>}

ScrapeMatchPageDataCalls ==
    {[fn |-> "scrape_match_page_data", lookup |-> l, crashed |-> FALSE,
      is_live_match |-> live, odds |-> o, bookmarker |-> b, markets |-> <<m, m>>] :
        l \in Lookups, live \in BOOLEAN, o \in OddsLists, b \in OddsLists,
        m \in MarketLists}
    \cup
    {[fn |-> "scrape_match_page_data", lookup |-> NoElement, crashed |-> TRUE,
      is_live_match |-> live, odds |-> <<>>, bookmarker |-> <<>>,
      markets |-> <<<<>>, <<>>>>] : live \in BOOLEAN}

\* ------------------------------------------------- scrape_fancy_and_sessions
\* A market name is a text whose characters are a sequence of letters.
LowerChar(c) ==
    CASE c = "O" -> "o" [] c = "R" -> "r" [] c = "U" -> "u"
      [] c = "N" -> "n" [] c = "S" -> "s" [] OTHER -> c

\* str.lower()
Lower(chars) == [i \in 1..Len(chars) |-> LowerChar(chars[i])]

\* sub in chars
Contains(chars, sub) ==
    \E i \in 1..(Len(chars) - Len(sub) + 1) :
        SubSeq(chars, i, i + Len(sub) - 1) = sub

IsSessionAsWritten(chars) ==
    Contains(chars, <<"o", "v", "e", "r">>) \/ Contains(chars, <<"r", "u", "n">>)

\* line 280: "over" in market_name.lower() or "run" in market_name.lower()
IsSession(chars) ==
    \/ Contains(Lower(chars), <<"o", "v", "e", "r">>)
    \/ Contains(Lower(chars), <<"r", "u", "n">>)

\* lines 271-277: market_item; the four values are the stripped texts of the
\* row's buttons
MarketItem(row) ==
    [name |-> Strip(row.name).core,
     no_val |-> row.no_val, no_size |-> "1K",
     yes_val |-> row.yes_val, yes_size |-> "1K"]

\* what parsing a row raises: nothing, or the exception of a find_element or a
\* text of lines 262-269
RowSkipped(row) ==
    row.raises \in {"NoSuchElementException", "StaleElementReferenceException"}

\* lines 260-286, the loop over market_rows from row i on: a row without a
\* name or one that raises a no-such-element or stale-element error is
\* skipped; any other exception leaves the loop and the function (290-295)
RECURSIVE MarketRows(_, _, _, _)
MarketRows(rows, i, fancy_data, session_data) ==
    IF i > Len(rows) THEN <<fancy_data, session_data>>
    ELSE LET row == rows[i]
         IN  IF row.raises = "none"
             THEN IF Len(Strip(row.name).core) = 0
                  THEN MarketRows(rows, i + 1, fancy_data, session_data)
                  ELSE IF IsSession(Strip(row.name).core)
                  THEN MarketRows(rows, i + 1, fancy_data,
                                  Append(session_data, MarketItem(row)))
                  ELSE MarketRows(rows, i + 1,
                                  Append(fancy_data, MarketItem(row)),
                                  session_data)
             ELSE IF RowSkipped(row)
             THEN MarketRows(rows, i + 1, fancy_data, session_data)
             ELSE <<<<>>, <<>>>>

\* lines 246-296: without the table (TimeoutException) both lists are empty
scrape_fancy_and_sessions(container_found, market_rows) ==
    IF container_found THEN MarketRows(market_rows, 1, <<>>, <<>>)
                       ELSE <<<<>>, <<>>>>

ScrapeFancyAndSessions ==
    /\ Called("scrape_fancy_and_sessions")
    /\ ret' = Returned(scrape_fancy_and_sessions(call.container_found,
                                                 call.market_rows))

\* The rows of a bounded run: the names "Over", "RUNS" (with whitespace
\* around it), "win" and an empty one, and the rows that raise.
MarketNames ==
    {Plain(<<"O", "v", "e", "r">>), Padded(<<"R", "U", "N", "S">>),
     Plain(<<"w", "i", "n">>), Padded(<<>>)}

MarketRowsOfPage ==
    {[name |-> n, raises |-> "none", no_val |-> "80", yes_val |-> "82"] :
        n \in MarketNames}
    \cup
    {[name |-> Plain(<<>>), raises |-> e, no_val |-> "", yes_val |-> ""] :
        e \in {"NoSuchElementException", "StaleElementReferenceException",
               "WebDriverException"}}

ScrapeFancyAndSessionsCalls ==
    {[fn |-> "scrape_fancy_and_sessions", container_found |-> TRUE,
      market_rows |-> rows] :
        rows \in UNION {[1..n -> MarketRowsOfPage] : n \in 0..MaxRows}}
    \cup
    {[fn |-> "scrape_fancy_and_sessions", container_found |-> FALSE,
      market_rows |-> <<>>]}

\* ---------------------------------------------------------- _parse_odds_table
\* lines 174-180 and 185-191, the loop over the buttons of one kind from button
\* i on: the price and the size are the stripped texts of the button's div and
\* span; a button without price is left out, and at a button without div or
\* span the NoSuchElementException ends the loop with what it has so far
RECURSIVE Prices(_, _, _)
Prices(buttons, i, prices) ==
    IF i > Len(buttons) THEN prices
    ELSE LET el == buttons[i]
         IN  IF ~el.div.found \/ ~el.span.found
             THEN prices
             ELSE IF IsEmpty(Strip(el.div.text))
             THEN Prices(buttons, i + 1, prices)
             ELSE Prices(buttons, i + 1,
                         Append(prices, [price |-> Strip(el.div.text),
                                         size |-> Strip(el.span.text)]))

UntitledIfMissing(row) == ~row.title.found

\* lines 165-171: the row has no span.in-play-title, or one without text
Untitled(row) == ~row.title.found \/ IsEmpty(row.title.text)

\* lines 193-197: the record of a row
OddsRecord(row) ==
    [team_name |-> row.title.text,
     back |-> Prices(row.back, 1, <<>>),
     lay |-> Prices(row.lay, 1, <<>>)]

\* lines 164-197, the loop over team_rows from row i on; a stale row raises a
\* StaleElementReferenceException, which ends the function with [] (198-200)
RECURSIVE TeamRows(_, _, _)
TeamRows(rows, i, data) ==
    IF i > Len(rows) THEN data
    ELSE IF rows[i].stale THEN <<>>
    ELSE IF Untitled(rows[i]) THEN TeamRows(rows, i + 1, data)
    ELSE TeamRows(rows, i + 1, Append(data, OddsRecord(rows[i])))

\* lines 156-203
parse_odds_table(team_rows) == TeamRows(team_rows, 1, <<>>)

ParseOddsTable ==
    /\ Called("_parse_odds_table")
    /\ ret' = Returned(parse_odds_table(call.team_rows))

\* The buttons of a bounded run: one with a price and a size, one without the
\* div of its price, one whose price is blank.
PricedButton == [div |-> Element(Plain("1.50")), span |-> Element(Padded("100"))]
BareButton == [div |-> NoElement, span |-> Element(Plain("100"))]
BlankButton == [div |-> Element(Padded("")), span |-> Element(Plain("0"))]

ButtonLists ==
    {<<>>, <<PricedButton>>, <<BlankButton, PricedButton>>,
     <<PricedButton, BareButton, PricedButton>>}

\* The rows: with the title "Team A" or "Team B", an empty title or none, and
\* the row that has gone stale.
TeamRowsOfPage ==
    {[stale |-> FALSE, title |-> t, back |-> b, lay |-> l] :
        t \in {NoElement, Element(Plain("")), Element(Plain("Team A")),
               Element(Plain("Team B"))},
        b \in ButtonLists, l \in {<<>>, <<PricedButton>>}}
    \cup {[stale |-> TRUE, title |-> NoElement, back |-> <<>>, lay |-> <<>>]}

ParseOddsTableCalls ==
    {[fn |-> "_parse_odds_table", team_rows |-> rows] :
        rows \in UNION {[1..n -> TeamRowsOfPage] : n \in 0..MaxRows}}

\* ============================================================= specifications
Workers == \E t \in Slots : Worker(t)

\* The whole program, with a list page that shows the matches 1..ListedIds.
Next ==
    \/ Signal \/ SignalInLock \/ Handler
    \/ Manager(Listings(1..ListedIds, MaxFound)) \/ Final
    \/ Workers
    \/ Writer

Spec == Init /\ [][Next]_vars

\* The same without the writer, which no other thread can observe: it writes
\* only its own variables and the files.
NextCore ==
    \/ Signal \/ SignalInLock \/ Handler
    \/ Manager(Listings(1..ListedIds, MaxFound)) \/ Final
    \/ Workers

SpecCore == Init /\ [][NextCore]_vars

\* The writer with the threads that fill and empty the cache, while no shutdown
\* is requested and no match finishes: the list page shows nothing, match 1 or
\* matches 1 and 2, and one external call may fail.
PersistLists == {<<>>, <<1>>, <<1, 2>>}

NextPersist ==
    \/ ManagerLoop(PersistLists)
    \/ \E t \in Slots :
          \/ WAcquire(t) \/ WLoad(t) \/ WFetch(t) \/ WScrape(t) \/ WPublish(t)
          \/ WWait(t) \/ WCleanup(t)
    \/ Writer

SpecPersist == InitWith(MaxFaults, 0) /\ [][NextPersist]_vars

\* The same threads when two external calls may fail, so that the removal of
\* the temporary file can fail after the write has.
FilesLists == {<<1, 2>>}

NextFiles ==
    \/ ManagerLoop(FilesLists)
    \/ \E t \in Slots :
          \/ WAcquire(t) \/ WLoad(t) \/ WFetch(t) \/ WScrape(t) \/ WPublish(t)
          \/ WWait(t) \/ WCleanup(t)
    \/ Writer

SpecFiles == InitWith(FileFaults, 0) /\ [][NextFiles]_vars

\* One match, listed or not, and a worker that meets up to WorkerFaults failures.
NextWorker == ManagerLoop(Listings({1}, 1)) \/ Workers

InitWorker == InitWith(WorkerFaults, 0) \/ InitWith(0, MaxFinishes)

SpecWorker == InitWorker /\ [][NextWorker]_vars

\* The site: from some moment on no match page loads any more.
PageGoesDown ==
    /\ ~page_down
    /\ page_down' = TRUE
    /\ UNCHANGED <<shared, wvars, mvars, hpc, wrvars, faults, finishes, fnvars>>

\* One match and its worker, on a site whose match pages may stop loading.
NextBroken == NextWorker \/ PageGoesDown

SpecBroken == InitWorker /\ [][NextBroken]_vars

FairBroken ==
    /\ SpecBroken
    /\ WF_vars(ManagerLoop(Listings({1}, 1)))
    /\ \A t \in Slots : WF_vars(Worker(t))

\* The manager and the workers on a site without failures, where no match
\* finishes: a worker leaves its loop only when the manager stops it.
NextCycles ==
    \/ ManagerLoop(Listings(1..ListedIds, MaxFound))
    \/ \E t \in Slots :
          \/ WAcquire(t) \/ WLoad(t) \/ WFetch(t) \/ WScrape(t) \/ WPublish(t)
          \/ WWait(t) \/ WCleanup(t)

SpecCycles == InitWith(0, 0) /\ [][NextCycles]_vars

\* Scheduling: every thread that can take a step eventually takes one, and so
\* does the signal handler once it has been called.  Nothing obliges a signal
\* to arrive, and signals do not arrive so fast that the main thread, which
\* runs their handler, never runs its own code in between.
MainThread(lists) == Manager(lists) \/ Final

FairThreads(lists) ==
    /\ WF_vars(Handler)
    /\ SF_vars(MainThread(lists))
    /\ \A t \in Slots : WF_vars(Worker(t))

FairCore == SpecCore /\ FairThreads(Listings(1..ListedIds, MaxFound))

\* A shutdown with three matches listed: two workers run and are registered,
\* the third is started in the cycle in which the signal may arrive.  The
\* threads are the main thread, its signal handler and the workers; the writer
\* thread, which shares only the cache with them, takes no step here.
ThreeListed == {<<1, 2, 3>>}

NextShutdown ==
    \/ Signal \/ SignalInLock \/ Handler
    \/ MDiscover(ThreeListed) \/ MPass2 \/ MStart \/ MRegister \/ MStale
    \/ MScan \/ MSweep \/ MCount \/ MExit \/ Final
    \/ Workers

SpecShutdown == InitWith(0, 0) /\ [][NextShutdown]_vars

FairShutdown ==
    /\ SpecShutdown
    /\ FairThreads(ThreeListed)

\* Every function that is called on its own, on every argument of a bounded
\* set.
Calls ==
    GetLiveDataCalls \cup ScrapeMatchPageDataCalls
        \cup ScrapeFancyAndSessionsCalls \cup ParseOddsTableCalls

InitCalls == \E c \in Calls : InitThreads(0, 0, FALSE, c)

NextCalls ==
    GetLiveData \/ ScrapeMatchPageData \/ ScrapeFancyAndSessions \/ ParseOddsTable

SpecCalls == InitCalls /\ [][NextCalls]_vars

\* One match that is live and then gone for good, its worker and the writer,
\* without failures and without a shutdown: the worker is stopped when the list
\* page no longer shows the match, and the writer goes on ticking.
GoneLists == {<<>>, <<1>>}

NextGone ==
    \/ ManagerLoop(GoneLists)
    \/ \E t \in Slots :
          \/ WAcquire(t) \/ WLoad(t) \/ WFetch(t) \/ WScrape(t) \/ WPublish(t)
          \/ WWait(t) \/ WCleanup(t)
    \/ Writer

SpecGone == InitWith(0, 0) /\ [][NextGone]_vars

\* Scheduling: the main thread, every worker and the writer, a thread of its
\* own (lines 694-695), each take the steps they can take.
FairGone ==
    /\ SpecGone
    /\ WF_vars(ManagerLoop(GoneLists))
    /\ \A t \in Slots : WF_vars(Worker(t))
    /\ WF_vars(Writer)

\* ===================================================================== claims
WorkersOf(id) == {t \in Slots : Running(t) /\ wmid[t] = id}

\* C1: in every reachable state each match ID has at most one worker thread
\* that has been started and has not yet completed its cleanup.
C1_OneWorkerPerId == \A id \in Ids : Cardinality(WorkersOf(id)) <= 1

\* C1's case: the list of the cycle names match 1 again while the worker of
\* match 1 is registered and running.
C1_Witness ==
    /\ mpc = "m_pass2"
    /\ matches_to_start # <<>>
    /\ Head(matches_to_start) = 1
    /\ 1 \in DOMAIN active_match_threads
    /\ Running(active_match_threads[1])

\* C2: whenever the data lock is free, the cache has an entry for a match ID
\* only if a worker for that ID has been started and has not yet completed its
\* cleanup.
C2_CacheHasWorker ==
    data_lock = "free" => \A id \in DOMAIN live_data_cache : WorkersOf(id) # {}

\* C2's case: a worker that has published is about to run its cleanup block.
C2_Witness ==
    \E t \in Slots : wpc[t] = "cleanup" /\ wmid[t] \in DOMAIN live_data_cache

\* C3: at every point at which a reader may open the target file, the file is
\* absent or holds one completely written list.
C3_TargetComplete == target_file.exists => target_file.complete

\* C3's case: the target holds an earlier list while the next one, a different
\* one, is half written.
C3_Witness ==
    /\ target_file.exists
    /\ temp_file.exists
    /\ ~temp_file.complete
    /\ temp_file.data # target_file.data

\* C4 as stated: the cycle sets the stop event of every registered worker whose
\* match the list no longer shows, and a worker so stopped eventually completes
\* its cleanup, which removes its cache entry and its handle.
C4_StaleWorkerIsStoppedAndCleansUp ==
    /\ [][(mpc = "m_stop" /\ mpc' # mpc)
             => \A id \in ids_to_stop \cap DOMAIN match_stop_events :
                    stop'[match_stop_events[id]]]_vars
    /\ \A t \in Slots :
           (Running(t) /\ stop[t] /\ ~main_shutdown_event) ~> ~Running(t)

\* C5 as stated: in a cycle whose listing failed, the manager sets no stop
\* event and starts no worker.
C5_FailedListingStopsNothing ==
    [][(list_outcome = "failed" /\ mpc' # mpc)
          => \A t \in Slots : /\ stop'[t] => stop[t]
                              /\ is_alive(t)' => is_alive(t)]_vars

AllExited ==
    /\ mpc \in {"sys_exit", "terminated"}
    /\ \A t \in Slots : ~is_alive(t)

\* C6 as stated, for the manager and the workers: once the shutdown is
\* requested with three workers started, the manager and every worker,
\* registered or not, eventually exit.
C6_ShutdownReachesAll ==
    (main_shutdown_event /\ Cardinality({t \in Slots : Running(t)}) >= 3)
        ~> AllExited

\* C7 as stated: once the main thread has finished joining and calls
\* sys.exit, the process terminates, whatever the workers do.
C7_ExitAfterJoin == (mpc = "sys_exit") ~> (mpc = "terminated")

\* C8 as stated: the handler never blocks forever.  It does when it waits for
\* the lock that the main thread, which it has interrupted, holds.
C8_HandlerNeverBlocked == ~(hpc = "h_stop" /\ data_lock = "main")

\* C9: a call of shutdown_handler made when main_shutdown_event is already set
\* returns and changes nothing; the event, once set, stays set.
C9_SecondCallNoop ==
    [][/\ (hpc = "h_begin" /\ main_shutdown_event /\ hpc' # hpc)
           => /\ hpc' = "idle"
              /\ UNCHANGED <<shared, wvars, mvars, wrvars>>
       /\ main_shutdown_event => main_shutdown_event']_vars

\* C9's case: the handler is called again, the event set, while a registered
\* worker's stop event is not set.
C9_Witness ==
    /\ hpc = "h_begin"
    /\ main_shutdown_event
    /\ \E id \in DOMAIN match_stop_events : ~stop[match_stop_events[id]]
\* C10: in a run of consecutive transient fetch errors every error up to the
\* ceiling is answered by a refresh in place, and the one after the ceiling by
\* leaving the inner loop for a new driver: of 6 errors, 5 refreshes and then
\* exactly one rebuild.
C10_SixthErrorRebuilds ==
    \A t \in Slots :
        /\ ceiling_breaks[t] = scrape_err_run[t] \div (ScrapeErrorCeiling + 1)
        /\ inplace_refreshes[t] = scrape_err_run[t] - ceiling_breaks[t]
        /\ consecutive_scrape_errors[t] =
               scrape_err_run[t] % (ScrapeErrorCeiling + 1)

\* C10's case: after the sixth error in a row the worker is back in its inner
\* loop with a new driver.
C10_Witness ==
    \E t \in Slots :
        /\ scrape_err_run[t] = ScrapeErrorCeiling + 1
        /\ ceiling_breaks[t] = 1
        /\ inplace_refreshes[t] = ScrapeErrorCeiling
        /\ wpc[t] = "inner"
        /\ thread_driver[t]

\* C11: every failed setup_driver() adds one to consecutive_driver_errors; at
\* the ceiling the worker leaves its loop for the cleanup block without another
\* attempt, below it the worker stays in the loop and retries; the counter
\* never passes the ceiling, so there is no sixth failed attempt in a row.
C11_DriverErrorCeiling ==
    /\ [](\A t \in Slots :
            /\ consecutive_driver_errors[t] <= DriverErrorCeiling
            /\ consecutive_driver_errors[t] = DriverErrorCeiling
                   => wpc[t] \in {"cleanup", "done"})
    /\ [][\A t \in Slots :
            consecutive_driver_errors'[t] > consecutive_driver_errors[t]
                => /\ consecutive_driver_errors'[t] =
                          consecutive_driver_errors[t] + 1
                   /\ wpc[t] = "outer"
                   /\ wpc'[t] = IF consecutive_driver_errors'[t] = DriverErrorCeiling
                                THEN "cleanup" ELSE "outer"]_vars

\* C11's case: the fifth failure in a row has sent the worker to its cleanup.
C11_Witness ==
    \E t \in Slots :
        /\ consecutive_driver_errors[t] = DriverErrorCeiling
        /\ wpc[t] = "cleanup"
        /\ ~stop[t]

\* C12 as stated: a worker that builds a new driver while no page loads any
\* more rebuilds only a bounded number of times and then leaves its loop.
C12_RebuildsAreBounded ==
    \A t \in Slots : (page_down /\ wpc[t] = "load") ~> ~Running(t)

\* C13: a worker thread ends only through its cleanup block, whatever made it
\* leave its loops, and when it has completed that block neither the cache nor
\* the table of threads nor the table of stop events has an entry of its match.
C13_CleanupOnEveryExit ==
    [][\A t \in Slots :
         (Running(t) /\ ~Running(t)')
            => /\ wpc[t] = "cleanup"
               /\ wmid[t] \notin DOMAIN live_data_cache'
               /\ wmid[t] \notin DOMAIN active_match_threads'
               /\ wmid[t] \notin DOMAIN match_stop_events']_vars

\* C13's case: a worker that saw its match finish reaches the cleanup block
\* with its cache entry, its handle and its stop event still in place.
C13_Witness ==
    \E t \in Slots :
        /\ wpc[t] = "cleanup"
        /\ match_finished[t]
        /\ wmid[t] \in DOMAIN live_data_cache
        /\ wmid[t] \in DOMAIN active_match_threads
        /\ active_match_threads[wmid[t]] = t
        /\ wmid[t] \in DOMAIN match_stop_events

\* the match IDs that have a running worker whose stop event is not set
Served == {id \in Ids : \E t \in WorkersOf(id) : ~stop[t]}

\* C14 as stated: when a cycle that extracted the list S completes, and no
\* shutdown is requested, the IDs that have a running worker whose stop event is
\* not set are those of S.
C14_ServedIsFoundAfterCycle ==
    [][(/\ mpc = "m_count"
        /\ mpc' = "m_loop"
        /\ list_outcome = "ok"
        /\ ~main_shutdown_event)
          => Served' = found_match_ids]_vars

\* the worker of slot t completes its cleanup block in this step
CompletesCleanup(t) == wpc[t] = "cleanup" /\ wpc'[t] # "cleanup"

\* C15: an entry of live_data_cache goes only in the step in which the worker
\* of its match completes its cleanup block; no step of the manager removes one.
C15_OnlyOwnerRemovesCacheEntry ==
    [][\A id \in DOMAIN live_data_cache :
          id \notin DOMAIN live_data_cache'
             => \E t \in Slots : wmid[t] = id /\ CompletesCleanup(t)]_vars

\* C15's case: the manager's sweep is about to drop the entries of a dead
\* thread while the cache holds a snapshot.
C15_Witness ==
    /\ mpc = "m_sweep"
    /\ dead_threads # {}
    /\ DOMAIN live_data_cache # {}

\* C16: the handle of a match leaves active_match_threads, or gives way to
\* another, only in the step in which its own worker completes its cleanup
\* block or when its thread is no longer alive; never while the worker fetches
\* or publishes.
C16_HandleOutlivesLoop ==
    [][\A id \in DOMAIN active_match_threads :
          (\/ id \notin DOMAIN active_match_threads'
           \/ active_match_threads'[id] # active_match_threads[id])
             => \/ CompletesCleanup(active_match_threads[id])
                \/ ~is_alive(active_match_threads[id])]_vars

\* C16's case: the sweep is about to remove the handle of a thread that ended
\* before it was registered, while another worker is fetching.
C16_Witness ==
    /\ mpc = "m_sweep"
    /\ \E id \in dead_threads :
          /\ id \in DOMAIN active_match_threads
          /\ ~is_alive(active_match_threads[id])
    /\ \E t \in Slots : wpc[t] = "inner" /\ wmid[t] \in DOMAIN active_match_threads

\* C17 as stated: a worker whose stop event is set starts no further fetch, no
\* refresh and no acquisition of a driver.
C17_NoWorkAfterStop ==
    [][\A t \in Slots :
          stop[t] => /\ wpc'[t] = "fetch" => wpc[t] = "fetch"
                     /\ inplace_refreshes'[t] <= inplace_refreshes[t]
                     /\ thread_driver'[t] => thread_driver[t]]_vars

\* C18: a snapshot whose result is not "In Progress" never reaches the cache;
\* the worker that scraped it holds no driver any more, fetches no more, builds
\* no new driver and goes to its cleanup block, after which the cache has no
\* entry of its match.
C18_TerminalResultStopsWorker ==
    /\ [](/\ \A id \in DOMAIN live_data_cache :
                live_data_cache[id].result = "In Progress"
          /\ \A t \in Slots :
                match_finished[t]
                   => /\ wpc[t] \in {"outer", "cleanup", "done"}
                      /\ ~thread_driver[t])
    /\ [][\A t \in Slots :
            match_finished[t]
               => /\ wpc'[t] \in {wpc[t], "cleanup", "done", "off"}
                  /\ ~Running(t)' => wmid[t] \notin DOMAIN live_data_cache']_vars

\* C18's case: a worker that has published before has scraped a result and
\* left its inner loop.
C18_Witness ==
    \E t \in Slots :
        /\ match_finished[t]
        /\ wpc[t] = "outer"
        /\ wmid[t] \in DOMAIN live_data_cache

\* C19: a worker holds a driver exactly from the setup_driver() that returned
\* it to the one quit() that releases it: none is held at the top of the outer
\* loop, where the next one is acquired, nor in or after the cleanup block.
C19_DriverHeldOnlyInsideLoop ==
    \A t \in Slots :
        thread_driver[t] <=> wpc[t] \in {"load", "inner", "fetch", "publish", "wait"}

\* C19's case: a worker is back at the top of its outer loop after a failure
\* that made it leave the inner loop, and is about to acquire its next driver.
C19_Witness ==
    \E t \in Slots :
        /\ wpc[t] = "outer"
        /\ ~stop[t]
        /\ ~match_finished[t]
        /\ wmid[t] \in DOMAIN live_data_cache
        /\ faults < WorkerFaults

\* C20: the list the writer writes is the cache's values at the instant of the
\* copy under the lock, and when its write succeeds the target file is a
\* complete text that json.load reads back as exactly that list.
C20_FileReadsBackAsCopy ==
    /\ [][(wrpc = "wr_loop" /\ wrpc' = "wr_mkstemp")
             => /\ all_live_data' = Values(live_data_cache)
                /\ all_live_data' # {}]_vars
    /\ [][(wrpc = "wr_replace" /\ wrpc' = "wr_loop" /\ faults' = faults)
             => /\ target_file'.exists
                /\ target_file'.complete
                /\ Loads(target_file'.data) = all_live_data]_vars

\* C20's case: the cache held the snapshot of match 1 alone when it was copied,
\* and the target file reads back as the list of that one snapshot.
C20_Witness ==
    /\ wrpc = "wr_loop"
    /\ target_file.exists
    /\ Loads(target_file.data) = {Snapshot(1, "In Progress")}

\* The writer is between its copy of the cache and the end of its file I/O.
Writing == wrpc \in {"wr_mkstemp", "wr_dump", "wr_replace"}

\* C21: the list of one tick is the whole cache of the instant of the copy,
\* taken with the lock free for the writer; the lock is not held during the
\* file I/O, and a put or a removal by a worker during it changes neither the
\* list nor the files: what reaches the temporary file and then the target is
\* the text of that list.
C21_WritesCacheOfOneInstant ==
    /\ [][(wrpc = "wr_loop" /\ wrpc' = "wr_mkstemp")
             => /\ data_lock = "free"
                /\ all_live_data' = Range(live_data_cache)]_vars
    /\ [][(Writing /\ live_data_cache' # live_data_cache)
             => /\ data_lock = "free"
                /\ UNCHANGED <<all_live_data, temp_file, target_file>>]_vars
    /\ [][(Writing /\ wrpc' \notin {wrpc, "wr_loop"})
             => /\ all_live_data' = all_live_data
                /\ temp_file'.data = Dumps(all_live_data)]_vars
    /\ [][(wrpc = "wr_replace" /\ target_file' # target_file)
             => target_file'.data = Dumps(all_live_data)]_vars

\* C21's case: while the list of two snapshots is being written, a worker has
\* removed its entry from the cache and the list still holds it.
C21_Witness ==
    /\ wrpc = "wr_replace"
    /\ Cardinality(all_live_data) = 2
    /\ \E snap \in all_live_data : snap \notin Range(live_data_cache)
    /\ temp_file.data = Dumps(all_live_data)

\* A write_to_json call ends in an error.
PersistFails == Writing /\ wrpc' = "wr_loop" /\ faults' < faults

\* Every tick with a non-empty cache starts a write.
RetriesNextTick ==
    (wrpc = "wr_loop" /\ wrpc' # wrpc /\ Range(live_data_cache) # {})
        => wrpc' = "wr_mkstemp"

\* C22 as stated: a failed persist leaves the target file as it was and no
\* temporary file behind, does not end the writer's loop, and the next tick
\* writes again.
C22_FailedPersistLeavesNothing ==
    [][/\ PersistFails => /\ target_file' = target_file
                          /\ ~temp_file'.exists
                          /\ wrpc' # "wr_off"
       /\ RetriesNextTick]_vars

\* C22 as the code has it: the temporary file of the failed write is gone
\* unless its removal has failed as well, which is only logged (lines 150-151).
\* (A write that fails in mkstemp has made no temporary file; one that an
\* earlier write has left behind stays.)
C22_FailedPersistKeepsTarget ==
    [][/\ PersistFails => /\ target_file' = target_file
                          /\ faults' = faults - 1
                               => IF wrpc = "wr_mkstemp"
                                  THEN temp_file' = temp_file
                                  ELSE ~temp_file'.exists
                          /\ wrpc' # "wr_off"
       /\ RetriesNextTick]_vars

\* C22's case: after a list has been written, the write of a different one has
\* failed; the target still holds the earlier list.
C22_Witness ==
    /\ wrpc = "wr_loop"
    /\ faults < FileFaults
    /\ temp_file.exists
    /\ target_file.exists
    /\ target_file.complete
    /\ target_file.data # temp_file.data

\* The control state and the locals of the thread of slot t.
LocalsOf(t) ==
    <<wpc[t], wmid[t], thread_driver[t], consecutive_scrape_errors[t],
      consecutive_driver_errors[t], match_finished[t], live_data[t]>>

\* A step of the running worker t.
WorkerActs(t) == wpc[t] # "off" /\ LocalsOf(t)' # LocalsOf(t)

\* The dicts d and e are the same at every key but k.
SameButAt(d, e, k) ==
    \A id \in Ids \ {k} :
        /\ id \in DOMAIN d <=> id \in DOMAIN e
        /\ id \in DOMAIN d => d[id] = e[id]

\* C23: a step of the worker of match X, a failure and the exit included,
\* changes no cache entry, handle or stop event but X's, and leaves every
\* other worker, the manager, the signal handler and the writer as they are.
C23_WorkerTouchesOnlyItsOwn ==
    [][\A t \in Slots :
          WorkerActs(t)
             => /\ SameButAt(live_data_cache, live_data_cache', wmid[t])
                /\ SameButAt(active_match_threads, active_match_threads', wmid[t])
                /\ SameButAt(match_stop_events, match_stop_events', wmid[t])
                /\ \A u \in Slots \ {t} :
                       LocalsOf(u)' = LocalsOf(u) /\ stop'[u] = stop[u]
                /\ UNCHANGED <<data_lock, main_shutdown_event, mvars, hpc,
                               wrvars>>]_vars

\* C23's case: the worker of one match has failed to get a driver or has left
\* its loop for good, while the worker of another match is registered and has
\* its snapshot in the cache.
C23_Witness ==
    \E t, u \in Slots :
        /\ wmid[t] # wmid[u]
        /\ \/ consecutive_driver_errors[t] > 0
           \/ wpc[t] = "done"
        /\ wpc[u] \in {"inner", "fetch", "wait"}
        /\ wmid[u] \in DOMAIN live_data_cache
        /\ wmid[u] \in DOMAIN active_match_threads
        /\ wmid[u] \in DOMAIN match_stop_events

\* C24 as stated: for a data file that holds a JSON array, the empty one
\* included, GET /api/livedata answers 200 with the parsed array as its body.
C24_BodyIsParsedFile ==
    (/\ ret.returned
     /\ call.fn = "get_live_data"
     /\ call.file.exists /\ call.file.complete /\ ~call.denied)
        => /\ ret.value.status = 200
           /\ ret.value.kind = "array"
           /\ ResponseJson(ret.value) = Loads(call.file.data)

\* The two error outcomes of C25 and what stands for "the error contains".
IsNotFound(response) ==
    /\ response.status = 404
    /\ response.kind = "object"
    /\ ResponseJson(response).error = FileNotFoundMsg

IsDecodeError(response) ==
    /\ response.status = 500
    /\ response.kind = "object"
    /\ ResponseJson(response).error = DecodeErrorMsg

\* C25: an absent data file gives 404 "Data file not found", a file that is no
\* valid JSON text gives 500 "Error decoding JSON", and a file that holds the
\* empty array gives neither.
C25_AbsentCorruptEmptyDiffer ==
    (ret.returned /\ call.fn = "get_live_data")
        => /\ ~call.file.exists => IsNotFound(ret.value)
           /\ (call.file.exists /\ ~call.file.complete /\ ~call.denied)
                 => IsDecodeError(ret.value)
           /\ (call.file.exists /\ call.file.complete /\ ~call.denied
                  /\ Loads(call.file.data) = {})
                 => ~IsNotFound(ret.value) /\ ~IsDecodeError(ret.value)

\* C25's case: the call on a file that holds the empty array has returned.
C25_Witness ==
    /\ ret.returned
    /\ call.fn = "get_live_data"
    /\ call.file = FileOf(Dumps({}), TRUE)
    /\ ~call.denied

\* The keys of the record of a live match and of an old one.
KeysAsStated(record, is_live_match) ==
    IF is_live_match
    THEN /\ {"odds", "bookmarker", "fancy", "sessions"} \subseteq DOMAIN record
         /\ "winner" \notin DOMAIN record
    ELSE /\ {"winner", "bookmarker"} \subseteq DOMAIN record
         /\ DOMAIN record \cap {"odds", "fancy", "sessions"} = {}

\* C26 as stated: result is "In Progress" exactly when there is no result
\* element, the element's text when that is not empty and "Finished" when it
\* is; the record of a live match has odds, bookmarker, fancy and sessions and
\* no winner, that of an old match winner and bookmarker and none of the others.
C26_ResultAndKeysAsStated ==
    (ret.returned /\ call.fn = "scrape_match_page_data")
        => /\ ret.value.result = Plain("In Progress") <=> ~call.lookup.found
           /\ call.lookup.found
                => ret.value.result = IF IsEmpty(call.lookup.text)
                                      THEN Plain("Finished")
                                      ELSE call.lookup.text
           /\ KeysAsStated(ret.value, call.is_live_match)

\* C26 as the code has it: the text is stripped of the whitespace at its ends
\* before it is tested and stored, and an element that shows "In Progress"
\* gives "In Progress" too.
C26_ResultIsStrippedText ==
    (ret.returned /\ call.fn = "scrape_match_page_data")
        => /\ ~call.lookup.found => ret.value.result = Plain("In Progress")
           /\ call.lookup.found
                => ret.value.result = IF call.lookup.text.core = ""
                                      THEN Plain("Finished")
                                      ELSE Plain(call.lookup.text.core)
           /\ KeysAsStated(ret.value, call.is_live_match)

\* C26's case: an old match whose page shows nothing but whitespace as its
\* result has been scraped.
C26_Witness ==
    /\ ret.returned
    /\ call.fn = "scrape_match_page_data"
    /\ ~call.is_live_match
    /\ call.lookup = Element(Padded(""))
    /\ ret.value.result = Plain("Finished")

\* The rows of a table that are parsed to an item: they raise nothing and have
\* a name.
ParsedRows(rows) ==
    {i \in 1..Len(rows) :
        rows[i].raises = "none" /\ Len(Strip(rows[i].name).core) > 0}

\* The items of the rows of `rows` whose index is in `which`, in row order.
RECURSIVE ItemsOf(_, _, _)
ItemsOf(rows, which, i) ==
    IF i > Len(rows) THEN <<>>
    ELSE (IF i \in which THEN <<MarketItem(rows[i])>> ELSE <<>>)
             \o ItemsOf(rows, which, i + 1)

\* lower-case "over" or "run" is part of the name, whatever its case
NamesSession(row) ==
    \E sub \in {<<"o", "v", "e", "r">>, <<"r", "u", "n">>} :
        Contains(Lower(Strip(row.name).core), sub)

\* C27: when no row raises anything but a stale-element or no-such-element
\* error, the sessions are the items of the parsed rows whose name contains
\* "over" or "run" in any case and the fancy markets are the items of the
\* other parsed rows; a row that raises such an error gives no item and takes
\* none away.
C27_EachRowInOneList ==
    (/\ ret.returned
     /\ call.fn = "scrape_fancy_and_sessions"
     /\ call.container_found
     /\ \A i \in 1..Len(call.market_rows) :
            call.market_rows[i].raises # "WebDriverException")
        => LET rows == call.market_rows
               session == {i \in ParsedRows(rows) : NamesSession(rows[i])}
           IN  /\ ret.value[2] = ItemsOf(rows, session, 1)
               /\ ret.value[1] = ItemsOf(rows, ParsedRows(rows) \ session, 1)

\* C27's case: a session row, a row that raises a stale-element error and a
\* fancy row, in this order, have given one session and one fancy market.
C27_Witness ==
    /\ ret.returned
    /\ call.fn = "scrape_fancy_and_sessions"
    /\ Len(call.market_rows) = 3
    /\ call.market_rows[2].raises = "StaleElementReferenceException"
    /\ Len(ret.value[1]) = 1
    /\ Len(ret.value[2]) = 1
    /\ ret.value[2][1].name = <<"R", "U", "N", "S">>

\* The rows of a table that have a title with text.
TitledRows(rows) ==
    {i \in 1..Len(rows) :
        rows[i].title.found /\ rows[i].title.text # Plain("")}

\* The records of the rows of `rows` whose index is in `which`, in row order.
RECURSIVE RecordsOf(_, _, _)
RecordsOf(rows, which, i) ==
    IF i > Len(rows) THEN <<>>
    ELSE (IF i \in which THEN <<OddsRecord(rows[i])>> ELSE <<>>)
             \o RecordsOf(rows, which, i + 1)

\* C28: when no row has gone stale, the result is the records of the rows that
\* have a title with text, in row order, each with the title and the back and
\* lay prices of its row; a row without title or with an empty one gives no
\* record and the rows after it are parsed.
C28_OneRecordPerTitledRow ==
    (/\ ret.returned
     /\ call.fn = "_parse_odds_table"
     /\ \A i \in 1..Len(call.team_rows) : ~call.team_rows[i].stale)
        => /\ ret.value = RecordsOf(call.team_rows, TitledRows(call.team_rows), 1)
           /\ Len(ret.value) = Cardinality(TitledRows(call.team_rows))

\* C28's case: a row without title between the rows of Team A and Team B has
\* given no record, and Team B's record, without prices, follows Team A's.
C28_Witness ==
    /\ ret.returned
    /\ call.fn = "_parse_odds_table"
    /\ Len(call.team_rows) = 3
    /\ ~call.team_rows[2].stale
    /\ ~call.team_rows[2].title.found
    /\ Len(ret.value) = 2
    /\ ret.value[1].team_name = Plain("Team A")
    /\ Len(ret.value[1].back) = 1
    /\ ret.value[2].team_name = Plain("Team B")
    /\ ret.value[2].back = <<>>

\* C29: the writer writes no empty list.  A tick that finds the cache empty
\* starts no write and leaves the files as they are, a write is of a list that
\* is not empty, and the target file, when there is one, holds such a list.
C29_NoEmptyListWritten ==
    /\ [](/\ Writing => all_live_data # {}
          /\ target_file.exists => Loads(target_file.data) # {})
    /\ [][(wrpc = "wr_loop" /\ Range(live_data_cache) = {})
             => /\ wrpc' \in {"wr_loop", "wr_off"}
                /\ UNCHANGED <<temp_file, target_file>>]_vars
    /\ [][target_file' # target_file
             => /\ target_file'.exists
                /\ Loads(target_file'.data) # {}]_vars

\* C29's case: the cache is empty again at a tick, and the target file still
\* holds the list written before.
C29_Witness ==
    /\ wrpc = "wr_loop"
    /\ all_live_data = {}
    /\ DOMAIN live_data_cache = {}
    /\ target_file.exists
    /\ target_file.complete

\* C30 as stated: once main_shutdown_event is set the manager starts no
\* worker, and when the handler has returned every worker that runs has its
\* stop event set.
C30_NoStartAfterShutdown ==
    /\ [][main_shutdown_event
             => \A t \in Slots : wpc[t] = "off" => wpc'[t] = "off"]_vars
    /\ []((main_shutdown_event /\ hpc = "idle")
             => \A t \in Slots : Running(t) => stop[t])

\* C31: whenever data_lock is free, active_match_threads and match_stop_events
\* have the same match IDs as keys.
C31_SameKeys ==
    data_lock = "free" => DOMAIN active_match_threads = DOMAIN match_stop_events

\* C31's case: the lock is free, a match is registered in both tables, and the
\* worker of another match has removed its entries in its cleanup block.
C31_Witness ==
    /\ data_lock = "free"
    /\ DOMAIN active_match_threads # {}
    /\ DOMAIN match_stop_events # {}
    /\ \E t \in Slots :
          /\ wpc[t] = "done"
          /\ wmid[t] \notin DOMAIN active_match_threads
          /\ wmid[t] \notin DOMAIN match_stop_events

\* C32 as stated: whenever data_lock is free, every match ID with an entry in
\* live_data_cache has a thread in active_match_threads.
C32_CachedIsRegistered ==
    data_lock = "free" => DOMAIN live_data_cache \subseteq DOMAIN active_match_threads

\* C33 as stated: when a worker enters its inner loop with a driver that
\* setup_driver() has just returned and that has loaded the match page,
\* consecutive_scrape_errors is 0.
C33_NewDriverStartsAtZero ==
    [][\A t \in Slots :
          (wpc[t] = "load" /\ wpc'[t] = "inner")
              => consecutive_scrape_errors'[t] = 0]_vars

\* the matches the list page shows whose row PASS 1 of this cycle did not
\* extract (the row raised and was skipped, or the rows after it were)
NotExtracted == (1..ListedIds) \ found_match_ids

\* C34 as stated: in a cycle whose listing is only partly extracted (a row is
\* extracted and another is not), the manager does not set the stop event of a
\* running worker of a match whose row was not extracted.
C34_NotExtractedNotStopped ==
    [][\A t \in Slots :
          (/\ list_outcome = "ok"
           /\ found_match_ids # {}
           /\ mpc = "m_stop"
           /\ Running(t)
           /\ wmid[t] \in NotExtracted
           /\ ~stop[t])
              => ~stop'[t]]_vars

\* no worker runs and the cache is empty
Quiet ==
    /\ \A t \in Slots : ~Running(t)
    /\ DOMAIN live_data_cache = {}

\* C35 as stated: if from some point on no worker runs and the cache stays
\* empty while the writer keeps ticking, then the target file comes to hold no
\* snapshot: again and again there is no target file or its list is empty.
C35_GoneLeavesFile ==
    <>[]Quiet => []<>(~target_file.exists \/ Loads(target_file.data) = {})

====
